---- MODULE Spec2Model ----
(***************************************************************************)
(* Model of ProcessGEE.py: the two public download functions               *)
(* get_dynworld_landcover and get_sentinel2, the collection builders       *)
(* _get_dynworld_col and _get_s2_sr_cld_col, and the output folder they    *)
(* write to.  Calls into the Earth Engine service, geemap and the mosaic   *)
(* helper are environment steps that either complete or raise.             *)
(***************************************************************************)
EXTENDS Integers, Sequences, FiniteSets, TLC

(* ------------------------------ bounds -------------------------------- *)
\* Bounding-box coordinates are integers in units of 1/Scale degree.
Scale == 2
\* Longest start_date / end_date list enumerated for the collection builders.
MaxWin == 3

(* -------------------------- program constants ------------------------- *)
\* "greater than 1 degree in X or Y direction"
ThresholdDeg == 1
\* geemap.fishnet(ee_shp, rows=2, cols=2)
Rows == 2
Cols == 2
NumTiles == Rows * Cols

DW_ALL_BANDS ==
    <<"water", "trees", "grass", "flooded_vegetation", "crops",
      "shrub_and_scrub", "built", "bare", "snow_and_ice">>
S2_DEFAULT_BANDS == <<"B2", "B3", "B4", "B8", "B12">>

TILE_DIR == "temp_tiles"
PROB_DIR == "probability"
OUT_ROOT == ""

(* ------------------------------ helpers ------------------------------- *)
Abs(x) == IF x < 0 THEN -x ELSE x
Range(s) == {s[i] : i \in 1..Len(s)}

\* A file of the output folder: tile = 0 is "<name>.<ext>", tile = k > 0 is
\* "<name><k>.<ext>" (geemap appends the tile number to the prefix).
FileOf(dir, name, tile, ext) ==
    [dir |-> dir, name |-> name, tile |-> tile, ext |-> ext]
TileFile(dir, prefix, k) == FileOf(dir, prefix, k, "tif")
SingleFile(dir, stem) == FileOf(dir, stem, 0, "tif")

\* geemap.download_ee_image_tiles: tiles 1..k of the fishnet written to out_dir
TilesWritten(out_dir, prefix, k) == {TileFile(out_dir, prefix, i) : i \in 1..k}

\* glob.glob(os.path.join(tile_dir, '*.tif'))
GlobTif(fs, dir) == {f \in fs : f.dir = dir /\ f.ext = "tif"}
\* glob.glob(os.path.join(tile_dir, f'sentinel2_{band}_*.tif'))
GlobS2Band(fs, dir, band) ==
    {f \in fs : f.dir = dir /\ f.ext = "tif" /\ f.tile > 0
                /\ f.name = ("sentinel2_" \o band) \o "_"}

\* pr.mosaicRasters(mosaic_list, out_file, extent_mode='trim'): the mosaic is
\* written to out_file and returned as an open dataset.
mosaicRasters(fs, out_file) == fs \cup {out_file}

Ev(op, arg) == [op |-> op, arg |-> arg]

(* -------------------------- pure program logic ------------------------ *)
\* bands default of get_dynworld_landcover
dw_bands_missing_one(arg) ==
    IF arg.isNone THEN SubSeq(DW_ALL_BANDS, 1, Len(DW_ALL_BANDS) - 1) ELSE arg.list
dw_bands(arg) == IF arg.isNone THEN DW_ALL_BANDS ELSE arg.list

\* bands default of get_sentinel2
s2_bands(arg) == IF arg.isNone THEN S2_DEFAULT_BANDS ELSE arg.list

\* total_bounds is (xmin, ymin, xmax, ymax); both functions unpack it as
\* "ymin, xmin, ymax, xmax = bbox" and test the two extents against 1 degree.
dw_large_aoi_ge(b) ==
    LET ymin == b[1] xmin == b[2] ymax == b[3] xmax == b[4]
    IN  (Abs(ymax - ymin) >= ThresholdDeg * Scale)
        \/ (Abs(xmax - xmin) >= ThresholdDeg * Scale)
dw_large_aoi(b) ==
    LET ymin == b[1] xmin == b[2] ymax == b[3] xmax == b[4]
    IN  (Abs(ymax - ymin) > ThresholdDeg * Scale)
        \/ (Abs(xmax - xmin) > ThresholdDeg * Scale)

s2_large_aoi(b) ==
    LET ymin == b[1] xmin == b[2] ymax == b[3] xmax == b[4]
    IN  (Abs(ymax - ymin) > ThresholdDeg * Scale)
        \/ (Abs(xmax - xmin) > ThresholdDeg * Scale)

\* reducer chosen for the probability request
prob_reducer_swapped(pt) == IF pt = "mean" THEN "median" ELSE "mean"
prob_reducer(pt) == IF pt = "mean" THEN "mean" ELSE "median"

\* One filtered Dynamic World collection: filterDate(s, e)
DWWindow(s, e) == [from |-> s, to |-> e]
\* One joined Sentinel-2 collection: the SR and the cloud-probability
\* collections are each filtered with filterDate and then joined.
S2Window(s1, e1, s2, e2) ==
    [sr |-> [from |-> s1, to |-> e1], cld |-> [from |-> s2, to |-> e2]]

ColOk(col) == [err |-> FALSE, col |-> col]
ColIndexError == [err |-> TRUE, col |-> <<>>]

\* for i in range(1, len(start_date)): merge(filterDate(start[i], end[i]))
\* (Python index i is TLA+ index i + 1)
RECURSIVE dw_merge_loop(_, _, _, _)
dw_merge_loop(col, start, end, i) ==
    IF i > Len(start) THEN ColOk(col)
    ELSE IF i > Len(end) THEN ColIndexError
    ELSE dw_merge_loop(Append(col, DWWindow(start[i], end[i])), start, end, i + 1)

RECURSIVE dw_merge_loop_first_end(_, _, _, _)
dw_merge_loop_first_end(col, start, end, i) ==
    IF i > Len(start) THEN ColOk(col)
    ELSE IF i > Len(end) THEN ColIndexError
    ELSE dw_merge_loop_first_end(Append(col, DWWindow(start[i], end[1])),
                                 start, end, i + 1)

get_dynworld_col_first_end(start, end) ==
    IF Len(start) = 0 \/ Len(end) = 0 THEN ColIndexError
    ELSE dw_merge_loop_first_end(<<DWWindow(start[1], end[1])>>, start, end, 2)
get_dynworld_col(start, end) ==
    IF Len(start) = 0 \/ Len(end) = 0 THEN ColIndexError
    ELSE dw_merge_loop(<<DWWindow(start[1], end[1])>>, start, end, 2)

RECURSIVE s2_merge_loop(_, _, _, _)
s2_merge_loop(col, start, end, i) ==
    IF i > Len(start) THEN ColOk(col)
    ELSE IF i > Len(end) THEN ColIndexError
    ELSE s2_merge_loop(
             Append(col, S2Window(start[i], end[i], start[i], end[i])),
             start, end, i + 1)

get_s2_sr_cld_col(start, end) ==
    IF Len(start) = 0 \/ Len(end) = 0 THEN ColIndexError
    ELSE LET first == <<S2Window(start[1], end[1], start[1], end[1])>>
         IN  IF Len(start) # 1 THEN s2_merge_loop(first, start, end, 2)
             ELSE ColOk(first)

(* ------------------------------- inputs ------------------------------- *)
NoBands == [isNone |-> TRUE, list |-> <<>>]
BandList(l) == [isNone |-> FALSE, list |-> l]

Coords == 0..(Scale + 1)
\* total_bounds of a shapefile: xmin <= xmax and ymin <= ymax
BBoxes ==
    {<<x1, y1, x2, y2>> : x1 \in Coords, y1 \in Coords, x2 \in Coords, y2 \in Coords}
BBoxesOrdered == {b \in BBoxes : b[1] <= b[3] /\ b[2] <= b[4]}

DWBandArgs ==
    {NoBands, BandList(<<>>), BandList(<<"water">>), BandList(<<"trees", "built">>)}
S2BandArgs ==
    {NoBands, BandList(<<>>), BandList(<<"B2">>), BandList(<<"B4", "B8">>)}
ProbTypes == {"None", "mean", "median", "mode"}

Dates == {"2024-01-01", "2024-06-01", "2025-01-01"}
DateArg(s, e) == [start |-> s, end |-> e]
RunDateArgs ==
    {DateArg(<<"2024-01-01">>, <<"2024-06-01">>),
     DateArg(<<"2024-01-01", "2024-06-01">>, <<"2024-06-01", "2025-01-01">>),
     DateArg(<<"2024-01-01", "2024-06-01">>, <<"2024-06-01">>)}
RECURSIVE SeqsUpTo(_, _)
SeqsUpTo(S, n) ==
    IF n = 0 THEN {<<>>}
    ELSE LET shorter == SeqsUpTo(S, n - 1)
         IN  shorter \cup {Append(q, d) : q \in shorter, d \in S}

\* Contents of out_folder before a run.  Besides the empty folder these are
\* the leftovers of earlier runs: an empty temp_tiles (get_sentinel2 never
\* removes it), land-cover tiles of a run whose download failed, Sentinel-2
\* tiles, a stray non-raster file, and an existing probability folder.
Folder(d, f) == [dirs |-> d, files |-> f]
EmptyFolder == Folder({}, {})
InitialFolders ==
    {EmptyFolder,
     Folder({TILE_DIR}, {}),
     Folder({TILE_DIR}, TilesWritten(TILE_DIR, "landcover_", 2)),
     Folder({TILE_DIR}, TilesWritten(TILE_DIR, "sentinel2_B2_", NumTiles)),
     Folder({TILE_DIR}, {FileOf(TILE_DIR, "tiles", 0, "log")}),
     Folder({PROB_DIR}, {})}

(* ------------------------------- state -------------------------------- *)
VARIABLES
    fn,            \* function being run
    pc,            \* position in the function, or "returned" / "raised"
    exc,           \* exception that ended the run, "none" otherwise
    bands_arg,     \* argument bands (None or a list)
    prob_type,     \* argument prob_type ("None" is Python None)
    bbox,          \* total_bounds of the AOI shapefile
    start_date,    \* argument start_date
    end_date,      \* argument end_date
    bands,         \* local bands after the None default
    large_aoi,     \* local large_aoi
    landcover_col, \* local landcover_col (the merged windows)
    reducer,       \* reducer of the probability request, "none" if not built
    dirs,          \* directories below out_folder
    files,         \* files below out_folder
    dirs0,         \* dirs when the run started
    files0,        \* files when the run started
    downloaded,    \* tile files written by this run
    mosaic_list,   \* list last handed to pr.mosaicRasters
    events,        \* calls made by this run, in order
    band_i,        \* index of the band loop
    col_result     \* result of a collection builder called on its own

vars == <<fn, pc, exc, bands_arg, prob_type, bbox, start_date, end_date, bands,
          large_aoi, landcover_col, reducer, dirs, files, dirs0, files0,
          downloaded, mosaic_list, events, band_i, col_result>>

inputs == <<fn, bands_arg, prob_type, bbox, start_date, end_date>>
locals == <<bands, large_aoi, landcover_col, reducer, band_i>>
disk == <<dirs, files>>
disk0 == <<dirs0, files0>>

\* Entry of a public function with the given arguments on the given folder.
PublicFns == {"get_dynworld_landcover", "get_sentinel2"}
Enter(f, ba, pt, bb, da, folder) ==
    /\ fn = f
    /\ pc = (IF f \in PublicFns THEN "authenticate" ELSE "call")
    /\ exc = "none"
    /\ bands_arg = ba
    /\ prob_type = pt
    /\ bbox = bb
    /\ start_date = da.start
    /\ end_date = da.end
    /\ bands = <<>>
    /\ large_aoi = FALSE
    /\ landcover_col = <<>>
    /\ reducer = "none"
    /\ dirs = folder.dirs
    /\ files = folder.files
    /\ dirs0 = folder.dirs
    /\ files0 = folder.files
    /\ downloaded = {}
    /\ mosaic_list = {}
    /\ events = <<>>
    /\ band_i = 0
    /\ col_result = ColOk(<<>>)

FirstDates == DateArg(<<"2024-01-01">>, <<"2024-06-01">>)

Init ==
    \E bb \in BBoxesOrdered, folder \in InitialFolders :
        \/ \E ba \in DWBandArgs, pt \in ProbTypes, da \in RunDateArgs :
               Enter("get_dynworld_landcover", ba, pt, bb, da, folder)
        \/ \E ba \in S2BandArgs :
               Enter("get_sentinel2", ba, "None", bb, FirstDates, folder)

Raise(e) == pc' = "raised" /\ exc' = e
Log(evs) == events' = events \o evs

(* ------------------------ steps shared by both ------------------------ *)
\* ee.Authenticate()
Authenticate ==
    /\ pc = "authenticate"
    /\ \E ok \in BOOLEAN :
           IF ok THEN pc' = "initialize" /\ exc' = exc
                      /\ Log(<<Ev("Authenticate", "")>>)
           ELSE Raise("EEException") /\ events' = events
    /\ UNCHANGED <<inputs, locals, disk, disk0, downloaded, mosaic_list, col_result>>

\* ee.Initialize(project=ee_project_id)
Initialize ==
    /\ pc = "initialize"
    /\ \E ok \in BOOLEAN :
           IF ok THEN pc' = "get_aoi" /\ exc' = exc
                      /\ Log(<<Ev("Initialize", "")>>)
           ELSE Raise("EEException") /\ events' = events
    /\ UNCHANGED <<inputs, locals, disk, disk0, downloaded, mosaic_list, col_result>>

\* What a tile download leaves on disk: tiles 1..k, k < NumTiles when it raised.
files_after_tiles_cleaned(fs, out_dir, prefix, k, ok) ==
    IF ok THEN fs \cup TilesWritten(out_dir, prefix, k)
    ELSE fs \ TilesWritten(out_dir, prefix, NumTiles)
files_after_tiles(fs, out_dir, prefix, k, ok) ==
    fs \cup TilesWritten(out_dir, prefix, k)

(* ----------------------- get_dynworld_landcover ----------------------- *)
\* bands default, _get_aoi, unpacking of bbox, large_aoi
DW_GetAoi ==
    /\ pc = "get_aoi" /\ fn = "get_dynworld_landcover"
    /\ bands' = dw_bands(bands_arg)
    /\ \E ok \in BOOLEAN :
           IF ok THEN /\ large_aoi' = dw_large_aoi(bbox)
                      /\ pc' = "collection" /\ exc' = exc
                      /\ Log(<<Ev("get_aoi", ""), Ev("decide", "")>>)
           ELSE Raise("ShapefileError") /\ UNCHANGED <<large_aoi, events>>
    /\ UNCHANGED <<inputs, landcover_col, reducer, band_i, disk, disk0,
                   downloaded, mosaic_list, col_result>>

\* _get_dynworld_col, the getInfo() print, select('label') and the mode reducer
DW_BuildCollection ==
    /\ pc = "collection"
    /\ LET r == get_dynworld_col(start_date, end_date)
       IN  IF r.err
           THEN Raise("IndexError") /\ UNCHANGED <<landcover_col, events>>
           ELSE /\ landcover_col' = r.col
                /\ \E ok \in BOOLEAN :
                       IF ok THEN /\ pc' = "landcover" /\ exc' = exc
                                  /\ Log(<<Ev("collection", ""), Ev("getInfo", ""),
                                           Ev("reduce", "mode")>>)
                       ELSE /\ Raise("EEException")
                            /\ Log(<<Ev("collection", ""), Ev("getInfo", "")>>)
    /\ UNCHANGED <<inputs, bands, large_aoi, reducer, band_i, disk, disk0,
                   downloaded, mosaic_list, col_result>>

\* tile_dir = out_folder/temp_tiles, created if missing; fishnet of 2 x 2
DW_MakeTileDir ==
    /\ pc = "landcover" /\ large_aoi
    /\ dirs' = dirs \cup {TILE_DIR}
    /\ Log(<<Ev("makedirs", TILE_DIR), Ev("fishnet", "")>>)
    /\ pc' = "download_tiles"
    /\ UNCHANGED <<inputs, locals, files, disk0, downloaded, mosaic_list, exc,
                   col_result>>

\* geemap.download_ee_image_tiles(dw_composite, ..., prefix='landcover_')
DW_DownloadTiles ==
    /\ pc = "download_tiles"
    /\ \E k \in 0..NumTiles, ok \in BOOLEAN :
           /\ ok => k = NumTiles
           /\ files' = files_after_tiles(files, TILE_DIR, "landcover_", k, ok)
           /\ downloaded' = downloaded \cup TilesWritten(TILE_DIR, "landcover_", k)
           /\ IF ok THEN /\ pc' = "mosaic" /\ exc' = exc
                         /\ Log(<<Ev("download_tiles", "label")>>)
              ELSE /\ Raise("EEException")
                   /\ Log(<<Ev("download_tiles_raised", "label")>>)
    /\ UNCHANGED <<inputs, locals, dirs, disk0, mosaic_list, col_result>>

\* glob of tile_dir/*.tif and pr.mosaicRasters into out_folder/landcover.tif
DW_Mosaic ==
    /\ pc = "mosaic"
    /\ mosaic_list' = GlobTif(files, TILE_DIR)
    /\ \E ok \in BOOLEAN :
           IF ok THEN /\ files' = mosaicRasters(files, SingleFile(OUT_ROOT, "landcover"))
                      /\ pc' = "cleanup" /\ exc' = exc
                      /\ Log(<<Ev("glob", ""), Ev("mosaic", "label")>>)
           ELSE /\ Raise("MosaicError") /\ files' = files
                /\ Log(<<Ev("glob", ""), Ev("mosaic_raised", "label")>>)
    /\ UNCHANGED <<inputs, locals, dirs, disk0, downloaded, col_result>>

\* mosaic_ras.close(), os.remove of every listed tile, os.rmdir(tile_dir)
DW_Cleanup ==
    /\ pc = "cleanup"
    /\ files' = files \ mosaic_list
    /\ IF \E f \in files' : f.dir = TILE_DIR
       THEN /\ Raise("OSError") /\ dirs' = dirs
            /\ Log(<<Ev("close", "label"), Ev("remove", "label")>>)
       ELSE /\ dirs' = dirs \ {TILE_DIR}
            /\ pc' = "probability" /\ exc' = exc
            /\ Log(<<Ev("close", "label"), Ev("remove", "label"),
                     Ev("rmdir", TILE_DIR)>>)
    /\ UNCHANGED <<inputs, locals, disk0, downloaded, mosaic_list, col_result>>

\* geemap.download_ee_image(dw_composite, out_folder/landcover.tif)
DW_DownloadImage ==
    /\ pc = "landcover" /\ ~large_aoi
    /\ \E ok \in BOOLEAN :
           IF ok THEN /\ files' = files \cup {SingleFile(OUT_ROOT, "landcover")}
                      /\ pc' = "probability" /\ exc' = exc
                      /\ Log(<<Ev("download_image", "label")>>)
           ELSE /\ Raise("EEException") /\ files' = files
                /\ Log(<<Ev("download_image_raised", "label")>>)
    /\ UNCHANGED <<inputs, locals, dirs, disk0, downloaded, mosaic_list, col_result>>

\* "if prob_type is not None": probability folder, reducer, fishnet
DW_Probability ==
    /\ pc = "probability"
    /\ IF prob_type = "None"
       THEN /\ pc' = "returned"
            /\ UNCHANGED <<dirs, reducer, band_i, events>>
       ELSE /\ dirs' = dirs \cup {PROB_DIR}
            /\ reducer' = prob_reducer(prob_type)
            /\ band_i' = 1
            /\ pc' = "prob_download"
            /\ Log(<<Ev("makedirs", PROB_DIR), Ev("reduce", reducer')>>
                   \o (IF large_aoi THEN <<Ev("fishnet", "")>> ELSE <<>>))
    /\ UNCHANGED <<inputs, bands, large_aoi, landcover_col, files, disk0,
                   downloaded, mosaic_list, exc, col_result>>

\* one iteration of "for band in bands" of the probability download
DW_ProbBand ==
    /\ pc = "prob_download" /\ band_i <= Len(bands)
    /\ LET band == bands[band_i]
       IN  IF large_aoi
           THEN \E k \in 0..NumTiles, ok \in BOOLEAN :
                    LET prefix == ("landcover_" \o band) \o "_"
                    IN  /\ ok => k = NumTiles
                        /\ files' = files_after_tiles(files, PROB_DIR, prefix, k, ok)
                        /\ downloaded' = downloaded \cup TilesWritten(PROB_DIR, prefix, k)
                        /\ IF ok THEN /\ band_i' = band_i + 1
                                      /\ UNCHANGED <<pc, exc>>
                                      /\ Log(<<Ev("download_tiles", band)>>)
                           ELSE /\ Raise("EEException") /\ band_i' = band_i
                                /\ Log(<<Ev("download_tiles_raised", band)>>)
           ELSE \E ok \in BOOLEAN :
                    /\ downloaded' = downloaded
                    /\ IF ok
                       THEN /\ files' = files \cup
                                  {SingleFile(PROB_DIR, "landcover_prob_" \o band)}
                            /\ band_i' = band_i + 1
                            /\ UNCHANGED <<pc, exc>>
                            /\ Log(<<Ev("download_image", band)>>)
                       ELSE /\ Raise("EEException")
                            /\ UNCHANGED <<files, band_i>>
                            /\ Log(<<Ev("download_image_raised", band)>>)
    /\ UNCHANGED <<inputs, bands, large_aoi, landcover_col, reducer, dirs, disk0,
                   mosaic_list, col_result>>

\* the band loop is exhausted: return
DW_Return ==
    /\ pc = "prob_download" /\ band_i > Len(bands)
    /\ pc' = "returned"
    /\ UNCHANGED <<inputs, locals, disk, disk0, downloaded, mosaic_list, events,
                   exc, col_result>>

(* ---------------------------- get_sentinel2 --------------------------- *)
\* bands default, _get_aoi, unpacking of bbox, large_aoi
S2_GetAoi ==
    /\ pc = "get_aoi" /\ fn = "get_sentinel2"
    /\ bands' = s2_bands(bands_arg)
    /\ \E ok \in BOOLEAN :
           IF ok THEN /\ large_aoi' = s2_large_aoi(bbox)
                      /\ pc' = "s2_branch" /\ exc' = exc
                      /\ Log(<<Ev("get_aoi", ""), Ev("decide", "")>>)
           ELSE Raise("ShapefileError") /\ UNCHANGED <<large_aoi, events>>
    /\ UNCHANGED <<inputs, landcover_col, reducer, band_i, disk, disk0,
                   downloaded, mosaic_list, col_result>>

\* os.makedirs(tile_dir, exist_ok=True) and the fishnet; the tile download
\* that follows in the source is commented out
S2_MakeTileDir ==
    /\ pc = "s2_branch" /\ large_aoi
    /\ dirs' = dirs \cup {TILE_DIR}
    /\ band_i' = 1
    /\ pc' = "s2_mosaic"
    /\ Log(<<Ev("makedirs", TILE_DIR), Ev("fishnet", "")>>)
    /\ UNCHANGED <<inputs, bands, large_aoi, landcover_col, reducer, files, disk0,
                   downloaded, mosaic_list, exc, col_result>>

\* one iteration of the mosaic loop: glob, pr.mosaicRasters, close
S2_MosaicBand ==
    /\ pc = "s2_mosaic" /\ band_i <= Len(bands)
    /\ LET band == bands[band_i]
       IN  /\ mosaic_list' = GlobS2Band(files, TILE_DIR, band)
           /\ \E ok \in BOOLEAN :
                  IF ok
                  THEN /\ files' = mosaicRasters(files,
                                      SingleFile(OUT_ROOT, "sentinel2_" \o band))
                       /\ band_i' = band_i + 1
                       /\ UNCHANGED <<pc, exc>>
                       /\ Log(<<Ev("glob", band), Ev("mosaic", band),
                                Ev("close", band)>>)
                  ELSE /\ Raise("MosaicError")
                       /\ UNCHANGED <<files, band_i>>
                       /\ Log(<<Ev("glob", band), Ev("mosaic_raised", band)>>)
    /\ UNCHANGED <<inputs, bands, large_aoi, landcover_col, reducer, dirs, disk0,
                   downloaded, col_result>>

\* the mosaic loop is exhausted; the cleanup is commented out: return
S2_Return ==
    /\ pc = "s2_mosaic" /\ band_i > Len(bands)
    /\ pc' = "returned"
    /\ UNCHANGED <<inputs, locals, disk, disk0, downloaded, mosaic_list, events,
                   exc, col_result>>

\* the single-shot loop: its first iteration reads available_bands, which no
\* statement of the function assigns
S2_SingleLoop ==
    /\ pc = "s2_branch" /\ ~large_aoi
    /\ IF Len(bands) = 0 THEN pc' = "returned" /\ exc' = exc
       ELSE Raise("NameError")
    /\ Log(<<Ev("single_loop", "")>>)
    /\ UNCHANGED <<inputs, locals, disk, disk0, downloaded, mosaic_list, col_result>>

Next ==
    \/ Authenticate
    \/ Initialize
    \/ DW_GetAoi
    \/ DW_BuildCollection
    \/ DW_MakeTileDir
    \/ DW_DownloadTiles
    \/ DW_Mosaic
    \/ DW_Cleanup
    \/ DW_DownloadImage
    \/ DW_Probability
    \/ DW_ProbBand
    \/ DW_Return
    \/ S2_GetAoi
    \/ S2_MakeTileDir
    \/ S2_MosaicBand
    \/ S2_Return
    \/ S2_SingleLoop

Spec == Init /\ [][Next]_vars

(* ------------------ repeated runs on one output folder ---------------- *)
RerunBBoxes == {<<0, 0, 1, 1>>, <<0, 0, Scale + 1, 1>>, <<1, 0, 1, Scale + 1>>}
RerunDWBandArgs == {BandList(<<"water">>)}
RerunS2BandArgs == {BandList(<<>>), BandList(<<"B2">>)}
RerunProbTypes == {"None", "mean"}

InitRerun ==
    \E bb \in RerunBBoxes :
        \/ \E ba \in RerunDWBandArgs, pt \in RerunProbTypes :
               Enter("get_dynworld_landcover", ba, pt, bb, FirstDates, EmptyFolder)
        \/ \E ba \in RerunS2BandArgs :
               Enter("get_sentinel2", ba, "None", bb, FirstDates, EmptyFolder)

\* The caller runs a public function again on the same out_folder after the
\* previous run returned or raised; nothing touches the folder in between.
Rerun ==
    /\ pc \in {"returned", "raised"}
    /\ \E bb \in RerunBBoxes :
           /\ bbox' = bb
           /\ \/ \E ba \in RerunDWBandArgs, pt \in RerunProbTypes :
                     /\ fn' = "get_dynworld_landcover"
                     /\ bands_arg' = ba
                     /\ prob_type' = pt
              \/ \E ba \in RerunS2BandArgs :
                     /\ fn' = "get_sentinel2"
                     /\ bands_arg' = ba
                     /\ prob_type' = "None"
    /\ pc' = "authenticate"
    /\ exc' = "none"
    /\ start_date' = FirstDates.start
    /\ end_date' = FirstDates.end
    /\ bands' = <<>>
    /\ large_aoi' = FALSE
    /\ landcover_col' = <<>>
    /\ reducer' = "none"
    /\ dirs0' = dirs
    /\ files0' = files
    /\ downloaded' = {}
    /\ mosaic_list' = {}
    /\ events' = <<>>
    /\ band_i' = 0
    /\ UNCHANGED <<disk, col_result>>

NextRerun == Next \/ Rerun

SpecRerun == InitRerun /\ [][NextRerun]_vars

(* ---------------- the collection builders called alone ---------------- *)
DateLists == SeqsUpTo(Dates, MaxWin)

InitCol ==
    \E f \in {"_get_dynworld_col", "_get_s2_sr_cld_col"},
       s \in DateLists, e \in DateLists :
        /\ Enter(f, NoBands, "None", <<0, 0, 0, 0>>, DateArg(s, e), EmptyFolder)

ColReturn(r) ==
    /\ col_result' = r
    /\ IF r.err THEN Raise("IndexError") ELSE pc' = "returned" /\ exc' = exc
    /\ UNCHANGED <<inputs, locals, disk, disk0, downloaded, mosaic_list, events>>

Col_Dynworld ==
    /\ pc = "call" /\ fn = "_get_dynworld_col"
    /\ ColReturn(get_dynworld_col(start_date, end_date))

Col_S2 ==
    /\ pc = "call" /\ fn = "_get_s2_sr_cld_col"
    /\ ColReturn(get_s2_sr_cld_col(start_date, end_date))

NextCol == Col_Dynworld \/ Col_S2

SpecCol == InitCol /\ [][NextCol]_vars

(* ------------------------- vocabulary of claims ----------------------- *)
EvIdx == DOMAIN events
Happened(ops) == \E i \in EvIdx : events[i].op \in ops
HappenedWith(ops, arg) == \E i \in EvIdx : events[i].op \in ops /\ events[i].arg = arg
Before(opsA, i) == \E j \in EvIdx : j < i /\ events[j].op \in opsA

AoiDecided == Happened({"decide"})
\* the box is large as the documentation defines it: extent of
\* (xmin, ymin, xmax, ymax) over 1 degree in X or in Y
ExtentX(b) == b[3] - b[1]
ExtentY(b) == b[4] - b[2]
IsLargeBox(b) ==
    ExtentX(b) > ThresholdDeg * Scale \/ ExtentY(b) > ThresholdDeg * Scale
TiledPathTaken == HappenedWith({"makedirs"}, TILE_DIR)
SinglePathTaken ==
    \/ HappenedWith({"download_image", "download_image_raised"}, "label")
    \/ Happened({"single_loop"})

DownloadOps == {"download_tiles", "download_image"}
DownloadAttemptOps ==
    DownloadOps \cup {"download_tiles_raised", "download_image_raised"}
IsBandDownload(e) == e.op \in DownloadOps /\ e.arg # "label"
\* bands whose probability download completed, in order
BandsDownloaded == [i \in 1..Len(SelectSeq(events, IsBandDownload)) |->
                        SelectSeq(events, IsBandDownload)[i].arg]
LabelFile == SingleFile(OUT_ROOT, "landcover")
IsDW == fn = "get_dynworld_landcover"
IsS2 == fn = "get_sentinel2"

(* ------------------------------- claims ------------------------------- *)

\* C1: in both public functions the AOI is large exactly when the extent of
\* (xmin, ymin, xmax, ymax) is strictly greater than 1 degree in X or in Y,
\* the tiled path is taken exactly when it is large, and the two functions
\* decide alike (both agree with the same predicate of the box).
C1_LargeAoiDecision ==
    /\ AoiDecided => (large_aoi <=> IsLargeBox(bbox))
    /\ TiledPathTaken => (AoiDecided /\ IsLargeBox(bbox))
    /\ SinglePathTaken => (AoiDecided /\ ~IsLargeBox(bbox))
    /\ ~(TiledPathTaken /\ SinglePathTaken)

\* a box of exactly 1 degree in X (and less in Y) went down the single-shot path
C1_Witness ==
    /\ IsDW
    /\ ExtentX(bbox) = ThresholdDeg * Scale
    /\ ExtentY(bbox) < ThresholdDeg * Scale
    /\ SinglePathTaken

\* C2: a run on a large AOI that returns leaves no temp_tiles behind, and a
\* run on a non-large AOI never creates it.
C2_TempTilesRemoved ==
    /\ (pc = "returned" /\ AoiDecided /\ large_aoi) => TILE_DIR \notin dirs
    /\ (AoiDecided /\ ~large_aoi) => (TILE_DIR \in dirs <=> TILE_DIR \in dirs0)

\* C3: after a run on a large AOI returns, every product downloaded as tiles
\* is one single raster (the file the single-shot path writes) and no tile
\* written by the run remains.
C3_TilesMosaickedAndDeleted ==
    (pc = "returned" /\ AoiDecided /\ large_aoi) =>
        /\ downloaded \cap files = {}
        /\ HappenedWith({"download_tiles"}, "label") => LabelFile \in files
        /\ \A i \in 1..Len(BandsDownloaded) :
               SingleFile(PROB_DIR, "landcover_prob_" \o BandsDownloaded[i]) \in files
        /\ IsS2 => \A i \in 1..Len(bands) :
               SingleFile(OUT_ROOT, "sentinel2_" \o bands[i]) \in files

ServiceOps ==
    {"get_aoi", "collection", "getInfo", "reduce", "fishnet"}
        \cup DownloadAttemptOps
MosaicOps == {"mosaic", "mosaic_raised"}

\* C4: no request to the service before authenticate and initialize have
\* completed, a mosaic only after the tile download of the same product has
\* completed, tiles removed only after the mosaic was written and closed.
C4_StepOrder ==
    \A i \in EvIdx :
        /\ events[i].op \in ServiceOps =>
               \E j \in EvIdx, k \in EvIdx :
                   /\ j < k /\ k < i
                   /\ events[j].op = "Authenticate"
                   /\ events[k].op = "Initialize"
        /\ events[i].op \in MosaicOps =>
               \E j \in EvIdx :
                   j < i /\ events[j] = Ev("download_tiles", events[i].arg)
        /\ events[i].op = "remove" =>
               \E j \in EvIdx, k \in EvIdx :
                   /\ j < k /\ k < i
                   /\ events[j].op = "mosaic" /\ events[k].op = "close"

\* C5: with prob_type None get_dynworld_landcover issues no probability
\* download and does not create the probability folder, for large and small
\* AOIs, and a run that returns has downloaded the label raster; with 'mean'
\* the mean reducer is used and with 'median' the median reducer.
C5_ProbTypeNone ==
    IsDW =>
        /\ prob_type = "None" =>
               /\ \A i \in EvIdx :
                      events[i].op \in DownloadAttemptOps => events[i].arg = "label"
               /\ reducer = "none"
               /\ PROB_DIR \in dirs <=> PROB_DIR \in dirs0
               /\ \A f \in files \ files0 : f.dir # PROB_DIR
               /\ pc = "returned" =>
                      /\ HappenedWith(DownloadOps, "label")
                      /\ LabelFile \in files
        /\ (prob_type \in {"mean", "median"} /\ pc \in {"prob_download", "returned"})
               => /\ reducer = prob_type
                  /\ HappenedWith({"reduce"}, prob_type)

\* a large-AOI run with prob_type None returned
C5_Witness ==
    IsDW /\ prob_type = "None" /\ pc = "returned" /\ large_aoi /\ PROB_DIR \notin dirs

ExpectedBands == IF bands_arg.isNone THEN DW_ALL_BANDS ELSE bands_arg.list

C7_DatesPaired ==
    (pc \in {"returned", "raised"} /\ fn \notin PublicFns
     /\ Len(start_date) = Len(end_date) /\ Len(start_date) >= 1) =>
        /\ pc = "returned"
        /\ ~col_result.err
        /\ Len(col_result.col) = Len(start_date)
        /\ \A i \in 1..Len(start_date) :
               IF fn = "_get_dynworld_col"
               THEN col_result.col[i] = [from |-> start_date[i], to |-> end_date[i]]
               ELSE /\ col_result.col[i].sr =
                            [from |-> start_date[i], to |-> end_date[i]]
                    /\ col_result.col[i].cld =
                            [from |-> start_date[i], to |-> end_date[i]]

\* three windows with different end dates were merged
C7_Witness ==
    /\ fn = "_get_s2_sr_cld_col" /\ pc = "returned"
    /\ Len(start_date) = 3 /\ Len(end_date) = 3
    /\ end_date[1] # end_date[2] /\ end_date[2] # end_date[3]
    /\ Len(col_result.col) = 3

\* C8: get_sentinel2 on a non-large AOI walks the requested bands without
\* raising and writes only files of requested bands; on a large AOI the tiles
\* of a band are downloaded before the band is mosaicked.
C8_Sentinel2Downloads ==
    IsS2 =>
        /\ Happened({"single_loop"}) => pc = "returned"
        /\ \A i \in EvIdx :
               events[i].op \in MosaicOps =>
                   \E j \in EvIdx :
                       j < i /\ events[j] = Ev("download_tiles", events[i].arg)

\* C9: the list handed to the mosaic helper is exactly the tiles this run
\* downloaded into temp_tiles, and it is not empty.
C9_MosaicListIsThisRun ==
    Happened(MosaicOps) =>
        /\ mosaic_list # {}
        /\ mosaic_list = {f \in downloaded : f.dir = TILE_DIR}

TiledDWSteps == {"download_tiles", "mosaic"}
CleanupOps == {"remove", "rmdir"}

\* C10: when the tile download or the mosaic of a tiled
\* get_dynworld_landcover run raises, the run ends there with the exception,
\* temp_tiles and every tile written stay on disk, and the next run on the
\* folder starts with them.
C10_NoCleanupOnRaise ==
    [][ /\ (IsDW /\ pc \in TiledDWSteps /\ pc' = "raised") =>
               /\ exc' # "none"
               /\ TILE_DIR \in dirs'
               /\ files \subseteq files'
               /\ {f \in downloaded' : f.dir = TILE_DIR} \subseteq files'
               /\ \A i \in DOMAIN events' : events'[i].op \notin CleanupOps
        /\ pc = "raised" => pc' \in {"raised", "authenticate"}
        /\ (pc = "raised" /\ pc' = "authenticate") =>
               /\ dirs0' = dirs /\ files0' = files
               /\ dirs' = dirs /\ files' = files
      ]_vars

\* a tiled run is about to download into a temp_tiles that an earlier run,
\* whose download raised, left with tiles in it
C10_Witness ==
    /\ IsDW /\ pc = "download_tiles"
    /\ \E f \in files0 : f.dir = TILE_DIR /\ f.name = "landcover_"

====
